---------------------------- MODULE Spec2Model ----------------------------
(***************************************************************************)
(* A model of SonicTransmute's Rust backend (src-tauri/src):               *)
(*   ncm.rs      process_ncm, decrypt_aes, build_sbox                      *)
(*   main.rs     convert_ncm_file, start_folder_watcher,                   *)
(*               stop_folder_watcher                                       *)
(*   watcher.rs  FolderWatcher::new                                        *)
(*                                                                         *)
(* Three next-state relations share the definitions below:                 *)
(*   SpecCipher  build_sbox and the stream-cipher loop, one iteration per  *)
(*               step;                                                     *)
(*   Spec        one convert_ncm_file request over a family of input       *)
(*               files; SpecConc runs two requests of the same code        *)
(*               against one file system;                                  *)
(*   SpecWatch   callers of start_folder_watcher / stop_folder_watcher.    *)
(***************************************************************************)
EXTENDS Integers, Sequences, FiniteSets, TLC

VARIABLES
    \* ---- build_sbox and the stream-cipher loop (SpecCipher)
    sb_phase,       \* "fill" | "pass1" | "pass2" | "decode" | "done"
    sb_key,         \* build_sbox's argument key
    sbox,           \* build_sbox's local sbox (the table T)
    sb_j,           \* build_sbox's accumulator j
    sb_i,           \* the loop index of the running loop
    final_sbox,     \* build_sbox's local final_sbox (the table F)
    s_box_clone,    \* process_ncm's s_box_clone, read by the cipher loop
    cipher,         \* the audio section as read from the file
    audio_data,     \* process_ncm's audio_data, decrypted in place
    \* ---- convert_ncm_file / process_ncm (Spec, SpecConc)
    procs,          \* the requests that were made (a subset of Procs)
    pc,             \* each request's position in convert_ncm_file / process_ncm
    file_path,      \* convert_ncm_file's argument file_path
    local,          \* process_ncm's locals, a record per request
    result,         \* what process_ncm returned ("none" until it returns)
    fs,             \* the file system: path -> [exists, data]
    transcoder,     \* how the ffmpeg executable behaves: "missing" | "fails" | "ok"
    events,         \* the app:conversion-progress events emitted, in order
    effects,        \* history: per request, the reads, decryptions and file operations done
    faulted,        \* history: per request, whether an I/O fault was injected into it
    \* ---- start_folder_watcher / stop_folder_watcher (SpecWatch)
    w_lock,         \* AppState.watcher's mutex: the caller holding the guard, or 0
    w_handle,       \* AppState.watcher's value: a watcher, or 0 for None
    w_live,         \* the watchers whose RecommendedWatcher exists
    w_watching,     \* the watchers with an active directory watch
    w_threads,      \* the watchers whose event thread runs
    w_pc,           \* each caller's position in the command it runs
    w_new,          \* each caller's local watcher / new_watcher, or 0
    w_next          \* the next watcher to be created

cvars == <<sb_phase, sb_key, sbox, sb_j, sb_i, final_sbox, s_box_clone,
           cipher, audio_data>>

pvars == <<procs, pc, file_path, local, result, fs, transcoder, events,
           effects, faulted>>

wvars == <<w_lock, w_handle, w_live, w_watching, w_threads, w_pc, w_new, w_next>>

-----------------------------------------------------------------------------
(* Bounds of the model. *)

\* Longest key handed to the stepped build_sbox.
MaxKeyLen == 2
\* Length of the payload of the stepped cipher loop, longer than one full
\* turn (256) of the position index.
PayloadLen == 258

-----------------------------------------------------------------------------
(* u8 arithmetic. *)

Byte == 0..255

RECURSIVE BitXor(_, _)
\* a ^ b on unsigned integers.
BitXor(a, b) ==
    IF a = 0 THEN b
    ELSE IF b = 0 THEN a
    ELSE ((a + b) % 2) + 2 * BitXor(a \div 2, b \div 2)

RECURSIVE BitAnd(_, _)
\* a & b on unsigned integers.
BitAnd(a, b) ==
    IF a = 0 \/ b = 0 THEN 0
    ELSE ((a % 2) * (b % 2)) + 2 * BitAnd(a \div 2, b \div 2)

\* u8::wrapping_add
wrapping_add(a, b) == (a + b) % 256

\* <[u8]>::swap(i, j)
swap(T, i, j) == [T EXCEPT ![i] = T[j], ![j] = T[i]]

-----------------------------------------------------------------------------
(* build_sbox, ncm.rs 131-153.  Tables are functions on 0..255; a key is a  *)
(* sequence, so key[i % key.len()] is key[(i % Len(key)) + 1].              *)

ZeroTable == [i \in 0..255 |-> 0]

\* for i in 0..256 { sbox[i] = i as u8; }
IdentityTable == [i \in 0..255 |-> i]

\* j = j.wrapping_add(sbox[i]).wrapping_add(key[i % key.len()])
ScheduleJ(T, j, i, key) ==
    wrapping_add(wrapping_add(j, T[i]), key[(i % Len(key)) + 1])

\* A scheduling step that stores sbox[j] in sbox[i] without the exchange.
ScheduleSwapOverwrite(T, i, j) == [T EXCEPT ![i] = T[j]]

\* sbox.swap(i, j as usize)
ScheduleSwap(T, i, j) == swap(T, i, j)

\* One iteration of the post-processing loop: the value stored in
\* final_sbox[i].
PostEntry(T, i) ==
    LET original == T[i]
        j == wrapping_add(T[BitAnd(i + original, 255)], original)
    IN  T[j]

\* One iteration of the scheduling loop on the pair [T, j].
ScheduleStep(st, i, key) ==
    LET j2 == ScheduleJ(st.T, st.j, i, key)
    IN  [T |-> ScheduleSwap(st.T, i, j2), j |-> j2]

RECURSIVE Schedule(_, _, _, _)
\* The iterations lo .. hi - 1 of the scheduling loop, in order.  The range
\* is halved, and the first half is computed (half.j is looked at) before
\* the second starts, so that the evaluation stays shallow.
Schedule(st, lo, hi, key) ==
    IF hi <= lo THEN st
    ELSE IF hi = lo + 1 THEN ScheduleStep(st, lo, key)
    ELSE LET mid == (lo + hi) \div 2
             half == Schedule(st, lo, mid, key)
         IN  IF half.j \in Byte THEN Schedule(half, mid, hi, key) ELSE half

\* build_sbox(key), for a key of length >= 1.
build_sbox(key) ==
    LET T == Schedule([T |-> IdentityTable, j |-> 0], 0, 256, key).T
    IN  [i \in 0..255 |-> PostEntry(T, i)]

\* Longest raw key (the key material after the 17-byte prefix) in a file.
MaxRawKey == 1

KeyAlphabet == {7, 255}

RECURSIVE SeqsUpTo(_, _)
SeqsUpTo(S, n) ==
    IF n = 0 THEN {<<>>}
    ELSE LET shorter == SeqsUpTo(S, n - 1)
         IN  shorter \cup {Append(s, x) : s \in shorter, x \in S}

\* The raw keys of the input files.
RawKeys == SeqsUpTo(KeyAlphabet, MaxRawKey) \ {<<>>}

\* build_sbox on the raw keys of the input files, computed once.
SboxOfRawKey == [key \in RawKeys |-> build_sbox(key)]

\* let s_box = build_sbox(rc4_key_data);
s_box_of(rc4_key_data) ==
    IF rc4_key_data \in RawKeys THEN SboxOfRawKey[rc4_key_data]
    ELSE build_sbox(rc4_key_data)

-----------------------------------------------------------------------------
(* The stream-cipher loop, ncm.rs 72-80. *)

\* A cipher step that indexes the table by i instead of i + 1.
CipherByteAtI(F, i, byte) ==
    LET j == BitAnd(i, 255)
    IN  BitXor(byte, F[F[j]])

\* let j = (i + 1) & 0xff;  *byte ^= s_box_clone[s_box_clone[j] as usize];
\* i is the 0-based position of byte.
CipherByte(F, i, byte) ==
    LET j == BitAnd(i + 1, 255)
    IN  BitXor(byte, F[F[j]])

\* The whole loop over a buffer (a sequence, position i at index i + 1).
StreamCipher(F, data) ==
    [k \in 1..Len(data) |-> CipherByte(F, k - 1, data[k])]

-----------------------------------------------------------------------------
(* SpecCipher: build_sbox and the cipher loop, one iteration per step. *)

CipherKeys == SeqsUpTo(KeyAlphabet, MaxKeyLen) \ {<<>>}

\* Two payloads of PayloadLen bytes.
Payloads ==
    { [k \in 1..PayloadLen |-> (k * m + 3) % 256] : m \in {1, 37} }

InitCipher ==
    /\ sb_phase = "fill"
    /\ sb_key \in CipherKeys
    /\ sbox = ZeroTable
    /\ sb_j = 0
    /\ sb_i = 0
    /\ final_sbox = ZeroTable
    /\ s_box_clone = ZeroTable
    /\ cipher \in Payloads
    /\ audio_data = cipher

\* ncm.rs 132-138: the identity fill, and j = 0.
FillIdentity ==
    /\ sb_phase = "fill"
    /\ sbox' = IdentityTable
    /\ sb_j' = 0
    /\ sb_i' = 0
    /\ sb_phase' = "pass1"
    /\ UNCHANGED <<sb_key, final_sbox, s_box_clone, cipher, audio_data>>
    /\ UNCHANGED <<pvars, wvars>>

\* ncm.rs 139-142: one iteration of the scheduling loop.
Pass1Step ==
    /\ sb_phase = "pass1"
    /\ sb_i < 256
    /\ LET st == ScheduleStep([T |-> sbox, j |-> sb_j], sb_i, sb_key)
       IN  /\ sb_j' = st.j
           /\ sbox' = st.T
    /\ sb_i' = sb_i + 1
    /\ UNCHANGED <<sb_phase, sb_key, final_sbox, s_box_clone, cipher, audio_data>>
    /\ UNCHANGED <<pvars, wvars>>

\* ncm.rs 145: the scheduling loop is over; final_sbox = [0u8; 256].
Pass1Done ==
    /\ sb_phase = "pass1"
    /\ sb_i = 256
    /\ sb_phase' = "pass2"
    /\ sb_i' = 0
    /\ final_sbox' = ZeroTable
    /\ UNCHANGED <<sb_key, sbox, sb_j, s_box_clone, cipher, audio_data>>
    /\ UNCHANGED <<pvars, wvars>>

\* ncm.rs 146-150: one iteration of the post-processing loop.
Pass2Step ==
    /\ sb_phase = "pass2"
    /\ sb_i < 256
    /\ final_sbox' = [final_sbox EXCEPT ![sb_i] = PostEntry(sbox, sb_i)]
    /\ sb_i' = sb_i + 1
    /\ UNCHANGED <<sb_phase, sb_key, sbox, sb_j, s_box_clone, cipher, audio_data>>
    /\ UNCHANGED <<pvars, wvars>>

\* ncm.rs 152, 50, 72: build_sbox returns final_sbox; process_ncm clones it.
Pass2Done ==
    /\ sb_phase = "pass2"
    /\ sb_i = 256
    /\ sb_phase' = "decode"
    /\ sb_i' = 0
    /\ s_box_clone' = final_sbox
    /\ UNCHANGED <<sb_key, sbox, sb_j, final_sbox, cipher, audio_data>>
    /\ UNCHANGED <<pvars, wvars>>

\* ncm.rs 77-80: one iteration of the cipher loop.
DecodeStep ==
    /\ sb_phase = "decode"
    /\ sb_i < Len(audio_data)
    /\ audio_data' =
         [audio_data EXCEPT ![sb_i + 1] = CipherByte(s_box_clone, sb_i, audio_data[sb_i + 1])]
    /\ sb_i' = sb_i + 1
    /\ UNCHANGED <<sb_phase, sb_key, sbox, sb_j, final_sbox, s_box_clone, cipher>>
    /\ UNCHANGED <<pvars, wvars>>

\* The cipher loop is over.
DecodeDone ==
    /\ sb_phase = "decode"
    /\ sb_i = Len(audio_data)
    /\ sb_phase' = "done"
    /\ UNCHANGED <<sb_key, sbox, sb_j, sb_i, final_sbox, s_box_clone, cipher, audio_data>>
    /\ UNCHANGED <<pvars, wvars>>

NextCipher ==
    \/ FillIdentity
    \/ Pass1Step
    \/ Pass1Done
    \/ Pass2Step
    \/ Pass2Done
    \/ DecodeStep
    \/ DecodeDone

-----------------------------------------------------------------------------
(* Files and paths. *)

Procs == {1, 2}

Stems == {"a", "b"}
Exts == {"ncm", "temp.flac", "temp.mp3", "flac"}
Paths == [stem : Stems, ext : Exts]
NoPath == [stem |-> "", ext |-> ""]

\* Path::with_extension
with_extension(path, ext) == [path EXCEPT !.ext = ext]

NoFile == [exists |-> FALSE, data |-> <<>>]
FileOf(data) == [exists |-> TRUE, data |-> data]

\* b"fLaC"
FLAC_MAGIC == <<102, 76, 97, 67>>

\* What the transcoder writes to its output path for an input file.
Transcoded(data) == FLAC_MAGIC \o data

-----------------------------------------------------------------------------
(* The cursor over the buffer, ncm.rs 24-65.  A position is 0-based.       *)

Min(a, b) == IF a < b THEN a ELSE b

\* Cursor: the bytes left to read; a position past the end leaves none.
Remaining(buf, position) == Len(buf) - Min(position, Len(buf))

\* Whether read_exact of n bytes succeeds.
CanRead(buf, position, n) == Remaining(buf, position) >= n

\* The n bytes at position.
BytesAt(buf, position, n) == SubSeq(buf, position + 1, position + n)

\* read_u32::<LittleEndian>
U32LE(b) == b[1] + 256 * b[2] + 65536 * b[3] + 16777216 * b[4]

\* The bytes of 0x4d4144464e455443 in little-endian order ("CTENFDAM");
\* u64::from_le_bytes is a bijection between 8 bytes and a u64, so the
\* comparison of the two u64 is the comparison of their bytes.
MAGIC == <<67, 84, 69, 78, 70, 68, 65, 77>>

\* A header check that accepts every magic.
MagicAccepted(magic) == Len(magic) = 8

\* magic_u64 != 0x4d4144464e455443, negated
MagicMatches(magic) == magic = MAGIC

-----------------------------------------------------------------------------
(* decrypt_aes, ncm.rs 122-129.  The aes and ecb crates are libraries: the  *)
(* block cipher is represented by a keyed bijection on 16-byte blocks (so   *)
(* that every plaintext has exactly one ciphertext, as with AES); the block *)
(* split and the PKCS7 unpadding are the crates' own rules.                 *)

CORE_KEY == <<104, 122, 72, 82, 65, 109, 115, 111, 53, 107, 73, 110, 98, 97, 120, 87>>

BlockDecrypt(block, key) == [i \in 1..16 |-> BitXor(block[17 - i], key[i])]
BlockEncrypt(block, key) == [i \in 1..16 |-> BitXor(block[17 - i], key[17 - i])]

\* ECB: every block on its own.
EcbDecrypt(data, key) ==
    [k \in 1..Len(data) |->
        BlockDecrypt(SubSeq(data, 16 * ((k - 1) \div 16) + 1, 16 * ((k - 1) \div 16) + 16),
                     key)[((k - 1) % 16) + 1]]
EcbEncrypt(data, key) ==
    [k \in 1..Len(data) |->
        BlockEncrypt(SubSeq(data, 16 * ((k - 1) \div 16) + 1, 16 * ((k - 1) \div 16) + 16),
                     key)[((k - 1) % 16) + 1]]

\* Pkcs7: the last byte n is the pad length, 1 <= n <= 16, and the last n
\* bytes all equal n.
Pkcs7Valid(data) ==
    /\ Len(data) > 0
    /\ LET n == data[Len(data)]
       IN  /\ n >= 1
           /\ n <= 16
           /\ \A k \in (Len(data) - n + 1)..Len(data) : data[k] = n

Pkcs7Unpad(data) == SubSeq(data, 1, Len(data) - data[Len(data)])

\* decrypt_aes(data, key): [ok, bytes].
decrypt_aes(data, key) ==
    IF Len(data) % 16 # 0 THEN [ok |-> FALSE, bytes |-> <<>>]
    ELSE LET plain == EcbDecrypt(data, key)
         IN  IF Pkcs7Valid(plain)
             THEN [ok |-> TRUE, bytes |-> Pkcs7Unpad(plain)]
             ELSE [ok |-> FALSE, bytes |-> <<>>]

\* key_data[i] ^= 0x64
Unmask(data) == [k \in 1..Len(data) |-> BitXor(data[k], 100)]

-----------------------------------------------------------------------------
(* process_ncm (ncm.rs 15-120) inside convert_ncm_file (main.rs 16-48),     *)
(* one step per stage.                                                      *)

NoLocals ==
    [buffer |-> <<>>, position |-> 0, decrypted_key |-> <<>>,
     s_box |-> ZeroTable, audio_data |-> <<>>, is_flac |-> FALSE,
     temp_path |-> NoPath, final_path |-> NoPath, status |-> "none"]

Effect(op, path) == [op |-> op, path |-> path]

Log(p, op, path) == [effects EXCEPT ![p] = Append(@, Effect(op, path))]

\* process_ncm returns res.
Return(p, res) ==
    /\ pc' = [pc EXCEPT ![p] = "returned"]
    /\ result' = [result EXCEPT ![p] = res]

\* process_ncm panics: the request's task unwinds.
Panic(p) ==
    /\ pc' = [pc EXCEPT ![p] = "panicked"]
    /\ UNCHANGED result

Goto(p, where) ==
    /\ pc' = [pc EXCEPT ![p] = where]
    /\ UNCHANGED result

\* main.rs 19-23: the "processing" event.
EmitProcessing(p) ==
    /\ pc[p] = "idle"
    /\ events' = Append(events, [id |-> p, status |-> "processing", message |-> ""])
    /\ Goto(p, "open")
    /\ UNCHANGED <<procs, file_path, local, fs, transcoder, effects, faulted>>
    /\ UNCHANGED <<cvars, wvars>>

\* ncm.rs 16-24: the file is read whole.
OpenAndRead(p) ==
    /\ pc[p] = "open"
    /\ IF ~fs[file_path[p]].exists
       THEN /\ Return(p, "File not found")
            /\ UNCHANGED local
       ELSE /\ local' = [local EXCEPT ![p].buffer = fs[file_path[p]].data,
                                      ![p].position = 0]
            /\ Goto(p, "header")
    /\ UNCHANGED <<procs, file_path, fs, transcoder, events, effects, faulted>>
    /\ UNCHANGED <<cvars, wvars>>

\* ncm.rs 26-35: the magic, and the 2-byte gap.
ValidateHeader(p) ==
    /\ pc[p] = "header"
    /\ LET buf == local[p].buffer
           position == local[p].position
       IN  IF ~CanRead(buf, position, 8)
           THEN /\ Return(p, "UnexpectedEof")
                /\ UNCHANGED <<local, effects>>
           ELSE /\ effects' = Log(p, "read_magic", NoPath)
                /\ IF ~MagicMatches(BytesAt(buf, position, 8))
                   THEN /\ Return(p, "Invalid NCM file format")
                        /\ local' = [local EXCEPT ![p].position = position + 8]
                   ELSE /\ Goto(p, "key")
                        /\ local' = [local EXCEPT ![p].position = position + 8 + 2]
    /\ UNCHANGED <<procs, file_path, fs, transcoder, events, faulted>>
    /\ UNCHANGED <<cvars, wvars>>

\* ncm.rs 37-50: the key section, its decryption, and the table.
ReadKey(p) ==
    /\ pc[p] = "key"
    /\ LET buf == local[p].buffer
           position == local[p].position
       IN  IF ~CanRead(buf, position, 4)
           THEN /\ Return(p, "UnexpectedEof")
                /\ UNCHANGED <<local, effects>>
           ELSE
           LET key_len == U32LE(BytesAt(buf, position, 4))
           IN  IF ~CanRead(buf, position + 4, key_len)
               THEN /\ Return(p, "UnexpectedEof")
                    /\ effects' = Log(p, "read_key_len", NoPath)
                    /\ local' = [local EXCEPT ![p].position = position + 4]
               ELSE
               LET key_data == Unmask(BytesAt(buf, position + 4, key_len))
                   decrypted == decrypt_aes(key_data, CORE_KEY)
                   after == position + 4 + key_len
                   read == Append(Append(effects[p], Effect("read_key_len", NoPath)),
                                  Effect("read_key", NoPath))
               IN  IF ~decrypted.ok
                   THEN /\ Return(p, "AES decryption failed")
                        /\ effects' = [effects EXCEPT ![p] = read]
                        /\ local' = [local EXCEPT ![p].position = after]
                   ELSE
                   LET decrypted_key == decrypted.bytes
                       got == Append(read, Effect("decrypt_key", NoPath))
                   IN  IF Len(decrypted_key) < 17
                       THEN \* &decrypted_key[17..] is out of range
                            /\ Panic(p)
                            /\ effects' = [effects EXCEPT ![p] = got]
                            /\ local' = [local EXCEPT ![p].position = after,
                                                      ![p].decrypted_key = decrypted_key]
                       ELSE
                       LET rc4_key_data == SubSeq(decrypted_key, 18, Len(decrypted_key))
                           built == Append(got, Effect("build_sbox", NoPath))
                       IN  IF Len(rc4_key_data) = 0
                           THEN \* i % key.len() divides by zero
                                /\ Panic(p)
                                /\ effects' = [effects EXCEPT ![p] = built]
                                /\ local' = [local EXCEPT ![p].position = after,
                                                          ![p].decrypted_key = decrypted_key]
                           ELSE /\ Goto(p, "meta")
                                /\ effects' = [effects EXCEPT ![p] = built]
                                /\ local' = [local EXCEPT ![p].position = after,
                                                          ![p].decrypted_key = decrypted_key,
                                                          ![p].s_box = s_box_of(rc4_key_data)]
    /\ UNCHANGED <<procs, file_path, fs, transcoder, events, faulted>>
    /\ UNCHANGED <<cvars, wvars>>

\* ncm.rs 52-59: the metadata section is skipped, then the CRC and the gap.
ReadMetadata(p) ==
    /\ pc[p] = "meta"
    /\ LET buf == local[p].buffer
           position == local[p].position
       IN  IF ~CanRead(buf, position, 4)
           THEN /\ Return(p, "UnexpectedEof")
                /\ UNCHANGED <<local, effects>>
           ELSE LET meta_len == U32LE(BytesAt(buf, position, 4))
                IN  /\ Goto(p, "image")
                    /\ effects' = Log(p, "read_meta_len", NoPath)
                    /\ local' = [local EXCEPT ![p].position = position + 4 + meta_len + 9]
    /\ UNCHANGED <<procs, file_path, fs, transcoder, events, faulted>>
    /\ UNCHANGED <<cvars, wvars>>

\* ncm.rs 61-65: the image section is skipped.
SkipImage(p) ==
    /\ pc[p] = "image"
    /\ LET buf == local[p].buffer
           position == local[p].position
       IN  IF ~CanRead(buf, position, 4)
           THEN /\ Return(p, "UnexpectedEof")
                /\ UNCHANGED <<local, effects>>
           ELSE LET img_len == U32LE(BytesAt(buf, position, 4))
                IN  /\ Goto(p, "audio")
                    /\ effects' = Log(p, "read_img_len", NoPath)
                    /\ local' = [local EXCEPT ![p].position = position + 4 + img_len]
    /\ UNCHANGED <<procs, file_path, fs, transcoder, events, faulted>>
    /\ UNCHANGED <<cvars, wvars>>

\* ncm.rs 84: audio_data.len() > 4 && &audio_data[0..4] == b"fLaC"
IsFlac(audio) ==
    Len(audio) > 4 /\ SubSeq(audio, 1, 4) = FLAC_MAGIC

\* ncm.rs 67-88, 96: the audio section is cut out, decrypted and sniffed.
DecryptAudio(p) ==
    /\ pc[p] = "audio"
    /\ LET buf == local[p].buffer
           audio_start == local[p].position
       IN  IF audio_start > Len(buf)
           THEN \* buffer[audio_start..] is out of range
                /\ Panic(p)
                /\ UNCHANGED <<local, effects>>
           ELSE LET decrypted == StreamCipher(local[p].s_box,
                                              SubSeq(buf, audio_start + 1, Len(buf)))
                    is_flac == IsFlac(decrypted)
                    temp_ext == IF is_flac THEN "flac" ELSE "mp3"
                IN  /\ Goto(p, "write")
                    /\ effects' = Log(p, "decrypt_audio", NoPath)
                    /\ local' = [local EXCEPT
                          ![p].audio_data = decrypted,
                          ![p].is_flac = is_flac,
                          ![p].temp_path = with_extension(file_path[p], "temp." \o temp_ext),
                          ![p].final_path = with_extension(file_path[p], "flac")]
    /\ UNCHANGED <<procs, file_path, fs, transcoder, events, faulted>>
    /\ UNCHANGED <<cvars, wvars>>

\* ncm.rs 90: fs::write(&temp_path, &audio_data)?  The call creates (or
\* truncates) the file and then writes; it can fail before the file exists
\* or after, with part of the data written.
WriteTemp(p) ==
    /\ pc[p] = "write"
    /\ LET temp_path == local[p].temp_path
       IN  \E outcome \in {"written", "not_created", "partial"} :
             CASE outcome = "written" ->
                    /\ fs' = [fs EXCEPT ![temp_path] = FileOf(local[p].audio_data)]
                    /\ effects' = Log(p, "create_temp", temp_path)
                    /\ Goto(p, "finalize")
                    /\ UNCHANGED faulted
               [] outcome = "not_created" ->
                    /\ Return(p, "IoError")
                    /\ faulted' = [faulted EXCEPT ![p] = TRUE]
                    /\ UNCHANGED <<fs, effects>>
               [] outcome = "partial" ->
                    /\ fs' = [fs EXCEPT ![temp_path] = FileOf(<<>>)]
                    /\ effects' = Log(p, "create_temp", temp_path)
                    /\ Return(p, "IoError")
                    /\ faulted' = [faulted EXCEPT ![p] = TRUE]
    /\ UNCHANGED <<procs, file_path, local, transcoder, events>>
    /\ UNCHANGED <<cvars, wvars>>

\* ncm.rs 98-99: fs::rename(&temp_path, &final_path)?  It fails when the
\* source is gone, and it can fail on the destination (fault).
RenameFlac(p) ==
    /\ pc[p] = "finalize"
    /\ local[p].is_flac
    /\ LET temp_path == local[p].temp_path
           final_path == local[p].final_path
       IN  \E fault \in BOOLEAN :
             IF ~fs[temp_path].exists
             THEN /\ ~fault
                  /\ Return(p, "IoError")
                  /\ effects' = Log(p, "rename_failed", temp_path)
                  /\ UNCHANGED <<fs, faulted>>
             ELSE IF fault
             THEN /\ Return(p, "IoError")
                  /\ faulted' = [faulted EXCEPT ![p] = TRUE]
                  /\ effects' = Log(p, "rename_failed", temp_path)
                  /\ UNCHANGED fs
             ELSE /\ fs' = [fs EXCEPT ![final_path] = fs[temp_path],
                                      ![temp_path] = NoFile]
                  /\ effects' = [effects EXCEPT ![p] =
                        Append(Append(@, Effect("rename_from", temp_path)),
                               Effect("rename_to", final_path))]
                  /\ Return(p, "Ok")
                  /\ UNCHANGED faulted
    /\ UNCHANGED <<procs, file_path, local, transcoder, events>>
    /\ UNCHANGED <<cvars, wvars>>

\* ncm.rs 102-104: ffmpeg -y -i temp_path final_path, waited for.  The
\* executable is missing, or it exits non-zero (always when its input is
\* gone), or it writes the output and exits zero.
RunFfmpeg(p) ==
    /\ pc[p] = "finalize"
    /\ ~local[p].is_flac
    /\ LET temp_path == local[p].temp_path
           final_path == local[p].final_path
       IN  IF transcoder = "missing"
           THEN /\ local' = [local EXCEPT ![p].status = "spawn_error"]
                /\ UNCHANGED <<fs, effects>>
           ELSE IF transcoder = "fails" \/ ~fs[temp_path].exists
           THEN /\ local' = [local EXCEPT ![p].status = "exit_nonzero"]
                /\ effects' = Log(p, "ffmpeg_read", temp_path)
                /\ UNCHANGED fs
           ELSE /\ local' = [local EXCEPT ![p].status = "exit_zero"]
                /\ fs' = [fs EXCEPT ![final_path] = FileOf(Transcoded(fs[temp_path].data))]
                /\ effects' = [effects EXCEPT ![p] =
                      Append(Append(@, Effect("ffmpeg_read", temp_path)),
                             Effect("ffmpeg_write", final_path))]
    /\ Goto(p, "cleanup")
    /\ UNCHANGED <<procs, file_path, transcoder, events, faulted>>
    /\ UNCHANGED <<cvars, wvars>>

\* ncm.rs 107: let _ = fs::remove_file(&temp_path);
RemoveTemp(p) ==
    /\ pc[p] = "cleanup"
    /\ fs' = [fs EXCEPT ![local[p].temp_path] = NoFile]
    /\ effects' = Log(p, "remove_temp", local[p].temp_path)
    /\ Goto(p, "match")
    /\ UNCHANGED <<procs, file_path, local, transcoder, events, faulted>>
    /\ UNCHANGED <<cvars, wvars>>

\* ncm.rs 109-119: the transcoder's status decides the result.
MatchStatus(p) ==
    /\ pc[p] = "match"
    /\ Return(p, CASE local[p].status = "exit_zero" -> "Ok"
                   [] local[p].status = "exit_nonzero" -> "FFmpeg conversion failed"
                   [] OTHER -> "FFmpeg not found")
    /\ UNCHANGED <<procs, file_path, local, fs, transcoder, events, effects, faulted>>
    /\ UNCHANGED <<cvars, wvars>>

\* main.rs 28-47: the terminal event for process_ncm's result.
EmitTerminal(p) ==
    /\ pc[p] = "returned"
    /\ events' = Append(events,
          IF result[p] = "Ok"
          THEN [id |-> p, status |-> "completed", message |-> ""]
          ELSE [id |-> p, status |-> "error", message |-> result[p]])
    /\ Goto(p, "done")
    /\ UNCHANGED <<procs, file_path, local, fs, transcoder, effects, faulted>>
    /\ UNCHANGED <<cvars, wvars>>

NextPipeline ==
    \/ \E p \in procs : EmitProcessing(p)
    \/ \E p \in procs : OpenAndRead(p)
    \/ \E p \in procs : ValidateHeader(p)
    \/ \E p \in procs : ReadKey(p)
    \/ \E p \in procs : ReadMetadata(p)
    \/ \E p \in procs : SkipImage(p)
    \/ \E p \in procs : DecryptAudio(p)
    \/ \E p \in procs : WriteTemp(p)
    \/ \E p \in procs : RenameFlac(p)
    \/ \E p \in procs : RunFfmpeg(p)
    \/ \E p \in procs : RemoveTemp(p)
    \/ \E p \in procs : MatchStatus(p)
    \/ \E p \in procs : EmitTerminal(p)

-----------------------------------------------------------------------------
(* The input files of Spec and SpecConc: containers laid out as the code    *)
(* reads them, with every section present or cut short.                     *)

\* By how much a length field that lies overstates its section.
Excess == 100000

\* b"neteasecloudmusic"
KeyPrefix == <<110, 101, 116, 101, 97, 115, 101, 99, 108, 111, 117, 100,
               109, 117, 115, 105, 99>>

U32Bytes(n) ==
    <<n % 256, (n \div 256) % 256, (n \div 65536) % 256, (n \div 16777216) % 256>>

Pkcs7Pad(data) ==
    LET n == 16 - (Len(data) % 16)
    IN  data \o [k \in 1..n |-> n]

\* The key section whose decryption is plain.
KeySectionOf(plain) == Unmask(EcbEncrypt(Pkcs7Pad(plain), CORE_KEY))

\* Decrypted key sections of 0, 5 and 16 bytes, and of 17 bytes and more.
KeyPlains ==
    {SubSeq(KeyPrefix, 1, n) : n \in {0, 5, 16}}
        \cup {KeyPrefix \o k : k \in RawKeys \cup {<<>>}}

\* Key sections: well-formed ones, an empty one, one that is no whole
\* block, and one whose padding is invalid.
KeySections ==
    {KeySectionOf(plain) : plain \in KeyPlains}
        \cup { <<>>, <<1, 2, 3, 4, 5>>,
               Unmask(EcbEncrypt([k \in 1..16 |-> 0], CORE_KEY)) }

\* A section with the length its field claims.
Section(bytes, claimed) == [bytes |-> bytes, claimed |-> claimed]

KeyOptions ==
    {Section(s, Len(s)) : s \in KeySections}
        \cup {Section(KeySectionOf(KeyPrefix \o <<7>>), 32 + Excess)}

MetaOptions ==
    {Section(<<>>, 0), Section(<<9, 9>>, 2), Section(<<9, 9>>, 2 + Excess)}

ImgOptions ==
    {Section(<<>>, 0), Section(<<8, 8, 8>>, 3), Section(<<8, 8, 8>>, 3 + Excess),
     Section(<<>>, 1)}

\* Decrypted payloads: empty, "fLa", "fLaC", "fLaCx", "fLaXx", "ID3xx".
AudioPlains ==
    { <<>>, <<102, 76, 97>>, FLAC_MAGIC, FLAC_MAGIC \o <<120>>,
      <<102, 76, 97, 88, 120>>, <<73, 68, 51, 120, 120>> }

\* The audio section that decrypts to plain under the key of the section
\* (the plain bytes themselves when the section derives no key).
AudioSectionOf(keySection, plain) ==
    LET decrypted == decrypt_aes(Unmask(keySection), CORE_KEY)
    IN  IF decrypted.ok /\ Len(decrypted.bytes) > 17
        THEN StreamCipher(s_box_of(SubSeq(decrypted.bytes, 18, Len(decrypted.bytes))),
                          plain)
        ELSE plain

\* The container: magic, 2-byte gap, key, metadata, CRC and 5-byte gap,
\* image, audio.
Container(magic, key, meta, img, audio) ==
    magic \o <<0, 0>>
          \o U32Bytes(key.claimed) \o key.bytes
          \o U32Bytes(meta.claimed) \o meta.bytes
          \o <<1, 2, 3, 4, 0, 0, 0, 0, 0>>
          \o U32Bytes(img.claimed) \o img.bytes
          \o audio

GoodKey == Section(KeySectionOf(KeyPrefix \o <<7>>), 32)

\* Every combination of the sections above, under the right magic.
Containers ==
    UNION { LET audios == {AudioSectionOf(key.bytes, plain) : plain \in AudioPlains}
            IN  {Container(MAGIC, key, meta, img, audio) :
                    meta \in MetaOptions, img \in ImgOptions, audio \in audios}
            : key \in KeyOptions }

\* Well-formed containers cut at every length.
Prefixes(buf) == {SubSeq(buf, 1, n) : n \in 0..(Len(buf) - 1)}

CutContainers ==
    UNION { Prefixes(Container(MAGIC, GoodKey, meta, img,
                               AudioSectionOf(GoodKey.bytes, FLAC_MAGIC \o <<120>>)))
            : meta \in {Section(<<>>, 0), Section(<<9, 9>>, 2)},
              img \in {Section(<<>>, 0), Section(<<8, 8, 8>>, 3)} }

\* Magics that differ from MAGIC in the first or in the last byte.
BadMagics == { [MAGIC EXCEPT ![1] = 66], [MAGIC EXCEPT ![8] = 0] }

BadMagicContainers ==
    { Container(magic, key, Section(<<>>, 0), img,
                AudioSectionOf(key.bytes, FLAC_MAGIC \o <<120>>)) :
        magic \in BadMagics, key \in KeyOptions, img \in ImgOptions }
        \cup BadMagics

InputFiles == Containers \cup CutContainers \cup BadMagicContainers

\* The few files of the two-request runs: a FLAC payload, another payload,
\* a bad magic, and an image length past the end.
FewInputFiles ==
    { Container(MAGIC, GoodKey, Section(<<>>, 0), Section(<<>>, 0),
                AudioSectionOf(GoodKey.bytes, FLAC_MAGIC \o <<120>>)),
      Container(MAGIC, GoodKey, Section(<<>>, 0), Section(<<>>, 0),
                AudioSectionOf(GoodKey.bytes, <<73, 68, 51, 120, 120>>)),
      Container([MAGIC EXCEPT ![1] = 66], GoodKey, Section(<<>>, 0), Section(<<>>, 0),
                <<>>),
      Container(MAGIC, GoodKey, Section(<<>>, 0), Section(<<>>, 1), <<>>) }

InputPath(stem) == [stem |-> stem, ext |-> "ncm"]

TranscoderModes == {"missing", "fails", "ok"}

\* build_sbox and the cipher loop are not stepped.
CipherOff ==
    /\ sb_phase = "off"
    /\ sb_key = <<>>
    /\ sbox = ZeroTable
    /\ sb_j = 0
    /\ sb_i = 0
    /\ final_sbox = ZeroTable
    /\ s_box_clone = ZeroTable
    /\ cipher = <<>>
    /\ audio_data = <<>>

\* No request is made.
PipelineOff ==
    /\ procs = {}
    /\ pc = [p \in Procs |-> "off"]
    /\ file_path = [p \in Procs |-> NoPath]
    /\ local = [p \in Procs |-> NoLocals]
    /\ result = [p \in Procs |-> "none"]
    /\ fs = [path \in Paths |-> NoFile]
    /\ transcoder = "missing"
    /\ events = <<>>
    /\ effects = [p \in Procs |-> <<>>]
    /\ faulted = [p \in Procs |-> FALSE]

\* One request, for a file that is missing or is one of InputFiles.
InitPipeline ==
    /\ procs = {1}
    /\ pc = [p \in Procs |-> IF p = 1 THEN "idle" ELSE "off"]
    /\ file_path = [p \in Procs |-> IF p = 1 THEN InputPath("a") ELSE NoPath]
    /\ local = [p \in Procs |-> NoLocals]
    /\ result = [p \in Procs |-> "none"]
    /\ \E file \in {NoFile} \cup {FileOf(buf) : buf \in InputFiles} :
          fs = [path \in Paths |-> IF path = InputPath("a") THEN file ELSE NoFile]
    /\ transcoder \in TranscoderModes
    /\ events = <<>>
    /\ effects = [p \in Procs |-> <<>>]
    /\ faulted = [p \in Procs |-> FALSE]

\* Two requests, for the same file or for two files.
InitConc ==
    /\ procs = {1, 2}
    /\ pc = [p \in Procs |-> "idle"]
    /\ \E stem \in Stems :
          file_path = [p \in Procs |-> IF p = 1 THEN InputPath("a") ELSE InputPath(stem)]
    /\ local = [p \in Procs |-> NoLocals]
    /\ result = [p \in Procs |-> "none"]
    /\ \E bufA \in FewInputFiles, bufB \in FewInputFiles :
          fs = [path \in Paths |->
                  IF path = InputPath("a") THEN FileOf(bufA)
                  ELSE IF path = InputPath("b") THEN FileOf(bufB)
                  ELSE NoFile]
    /\ transcoder \in TranscoderModes
    /\ events = <<>>
    /\ effects = [p \in Procs |-> <<>>]
    /\ faulted = [p \in Procs |-> FALSE]

-----------------------------------------------------------------------------
(* start_folder_watcher and stop_folder_watcher (main.rs 50-79) with        *)
(* FolderWatcher::new (watcher.rs 10-45), one step per statement.  A        *)
(* watcher is named by a number; 0 is None.                                 *)

\* Number of concurrent callers of the two commands.
MaxCallers == 2
\* Number of watchers created in a run.
MaxWatchers == 3

Callers == 1..MaxCallers

\* The pcs at which a caller holds the MutexGuard.
LockedPcs == {"s_take", "s_new", "s_watch", "s_spawn", "s_install", "s_fail",
              "s_unlock", "p_set", "p_unlock"}

\* main.rs 84: AppState { watcher: Mutex::new(None) }
InitWatcher ==
    /\ w_lock = 0
    /\ w_handle = 0
    /\ w_live = {}
    /\ w_watching = {}
    /\ w_threads = {}
    /\ w_pc = [c \in Callers |-> "idle"]
    /\ w_new = [c \in Callers |-> 0]
    /\ w_next = 1

\* Dropping a FolderWatcher drops its RecommendedWatcher: the directory
\* watch ends (and the channel's sender goes, which ends the thread's loop).
DropWatcher(w) ==
    /\ w_live' = w_live \ {w}
    /\ w_watching' = w_watching \ {w}

\* main.rs 52: state.watcher.lock(); the call blocks while the lock is held.
StartLock(c) ==
    /\ w_pc[c] = "idle"
    /\ w_lock = 0
    /\ w_next <= MaxWatchers
    /\ w_lock' = c
    /\ w_pc' = [w_pc EXCEPT ![c] = "s_take"]
    /\ UNCHANGED <<w_handle, w_live, w_watching, w_threads, w_new, w_next>>
    /\ UNCHANGED <<cvars, pvars>>

\* A start that leaves the prior watcher in the handle.
StartTakeSkipped(c) ==
    /\ w_pc[c] = "s_take"
    /\ w_pc' = [w_pc EXCEPT ![c] = "s_new"]
    /\ UNCHANGED <<w_lock, w_handle, w_live, w_watching, w_threads, w_new, w_next>>
    /\ UNCHANGED <<cvars, pvars>>

\* main.rs 54-57: if let Some(watcher) = watcher_guard.take() { drop(watcher); }
StartTake(c) ==
    /\ w_pc[c] = "s_take"
    /\ w_handle' = 0
    /\ DropWatcher(w_handle)
    /\ w_pc' = [w_pc EXCEPT ![c] = "s_new"]
    /\ UNCHANGED <<w_lock, w_threads, w_new, w_next>>
    /\ UNCHANGED <<cvars, pvars>>

\* watcher.rs 14-17: the channel, and RecommendedWatcher::new(tx, ..)?
NewCreate(c) ==
    /\ w_pc[c] = "s_new"
    /\ \E ok \in BOOLEAN :
          IF ok
          THEN /\ w_new' = [w_new EXCEPT ![c] = w_next]
               /\ w_live' = w_live \cup {w_next}
               /\ w_next' = w_next + 1
               /\ w_pc' = [w_pc EXCEPT ![c] = "s_watch"]
          ELSE /\ w_pc' = [w_pc EXCEPT ![c] = "s_fail"]
               /\ UNCHANGED <<w_new, w_live, w_next>>
    /\ UNCHANGED <<w_lock, w_handle, w_watching, w_threads>>
    /\ UNCHANGED <<cvars, pvars>>

\* watcher.rs 20-21: watcher.watch(path, NonRecursive)?  On the error the
\* local watcher is dropped.
NewWatch(c) ==
    /\ w_pc[c] = "s_watch"
    /\ \E ok \in BOOLEAN :
          IF ok
          THEN /\ w_watching' = w_watching \cup {w_new[c]}
               /\ w_pc' = [w_pc EXCEPT ![c] = "s_spawn"]
               /\ UNCHANGED <<w_live, w_new>>
          ELSE /\ DropWatcher(w_new[c])
               /\ w_new' = [w_new EXCEPT ![c] = 0]
               /\ w_pc' = [w_pc EXCEPT ![c] = "s_fail"]
    /\ UNCHANGED <<w_lock, w_handle, w_threads, w_next>>
    /\ UNCHANGED <<cvars, pvars>>

\* watcher.rs 24-44: the event thread is spawned; Ok(FolderWatcher { watcher }).
NewSpawn(c) ==
    /\ w_pc[c] = "s_spawn"
    /\ w_threads' = w_threads \cup {w_new[c]}
    /\ w_pc' = [w_pc EXCEPT ![c] = "s_install"]
    /\ UNCHANGED <<w_lock, w_handle, w_live, w_watching, w_new, w_next>>
    /\ UNCHANGED <<cvars, pvars>>

\* main.rs 70: *watcher_guard = Some(new_watcher); the value the handle held
\* is dropped.
StartInstall(c) ==
    /\ w_pc[c] = "s_install"
    /\ w_handle' = w_new[c]
    /\ DropWatcher(w_handle)
    /\ w_new' = [w_new EXCEPT ![c] = 0]
    /\ w_pc' = [w_pc EXCEPT ![c] = "s_unlock"]
    /\ UNCHANGED <<w_lock, w_threads, w_next>>
    /\ UNCHANGED <<cvars, pvars>>

\* main.rs 68 and 71: the command returns (Err or Ok) and the guard is dropped.
StartReturn(c) ==
    /\ w_pc[c] \in {"s_fail", "s_unlock"}
    /\ w_lock' = 0
    /\ w_pc' = [w_pc EXCEPT ![c] = "idle"]
    /\ UNCHANGED <<w_handle, w_live, w_watching, w_threads, w_new, w_next>>
    /\ UNCHANGED <<cvars, pvars>>

\* main.rs 76: state.watcher.lock()
StopLock(c) ==
    /\ w_pc[c] = "idle"
    /\ w_lock = 0
    /\ w_lock' = c
    /\ w_pc' = [w_pc EXCEPT ![c] = "p_set"]
    /\ UNCHANGED <<w_handle, w_live, w_watching, w_threads, w_new, w_next>>
    /\ UNCHANGED <<cvars, pvars>>

\* main.rs 77: *watcher_guard = None; the value the handle held is dropped.
StopSet(c) ==
    /\ w_pc[c] = "p_set"
    /\ w_handle' = 0
    /\ DropWatcher(w_handle)
    /\ w_pc' = [w_pc EXCEPT ![c] = "p_unlock"]
    /\ UNCHANGED <<w_lock, w_threads, w_new, w_next>>
    /\ UNCHANGED <<cvars, pvars>>

\* main.rs 78: Ok(()) and the guard is dropped.
StopReturn(c) ==
    /\ w_pc[c] = "p_unlock"
    /\ w_lock' = 0
    /\ w_pc' = [w_pc EXCEPT ![c] = "idle"]
    /\ UNCHANGED <<w_handle, w_live, w_watching, w_threads, w_new, w_next>>
    /\ UNCHANGED <<cvars, pvars>>

\* watcher.rs 25 and 41-42: the watcher is gone, so is the sender; `for res
\* in rx` ends and the thread exits.
ThreadExit(w) ==
    /\ w \in w_threads
    /\ w \notin w_live
    /\ w_threads' = w_threads \ {w}
    /\ UNCHANGED <<w_lock, w_handle, w_live, w_watching, w_pc, w_new, w_next>>
    /\ UNCHANGED <<cvars, pvars>>

NextWatch ==
    \/ \E c \in Callers : StartLock(c)
    \/ \E c \in Callers : StartTake(c)
    \/ \E c \in Callers : NewCreate(c)
    \/ \E c \in Callers : NewWatch(c)
    \/ \E c \in Callers : NewSpawn(c)
    \/ \E c \in Callers : StartInstall(c)
    \/ \E c \in Callers : StartReturn(c)
    \/ \E c \in Callers : StopLock(c)
    \/ \E c \in Callers : StopSet(c)
    \/ \E c \in Callers : StopReturn(c)
    \/ \E w \in 1..MaxWatchers : ThreadExit(w)

vars == <<cvars, pvars, wvars>>

InitSpecCipher == InitCipher /\ PipelineOff /\ InitWatcher
SpecCipher == InitSpecCipher /\ [][NextCipher]_vars

Init == InitPipeline /\ CipherOff /\ InitWatcher
Spec == Init /\ [][NextPipeline]_vars

InitSpecConc == InitConc /\ CipherOff /\ InitWatcher
SpecConc == InitSpecConc /\ [][NextPipeline]_vars

InitSpecWatch == InitWatcher /\ CipherOff /\ PipelineOff
SpecWatch == InitSpecWatch /\ [][NextWatch]_vars

-----------------------------------------------------------------------------
(* Claims about build_sbox and the cipher loop (SpecCipher). *)

IsPermutation(T) == {T[i] : i \in 0..255} = 0..255

\* C10: for every non-empty key the table T (sbox) is a permutation of 0..255
\* once filled, after every iteration of pass 1 and hence before pass 2, and
\* pass 2 only reads T and writes the separate table F (final_sbox).
C10_PermutationBeforePass2 ==
    /\ [](sb_phase # "fill" => IsPermutation(sbox))
    /\ [][sb_phase = "pass2" => sbox' = sbox]_vars

\* C10 witness: pass 1 has run to its end on a non-empty key and has
\* scrambled the table; pass 2 is filling F.
C10_Witness ==
    /\ sb_phase = "pass2"
    /\ sb_i = 256
    /\ Len(sb_key) >= 1
    /\ sbox # IdentityTable
    /\ final_sbox # sbox

\* C9: the cipher loop leaves the table unchanged and the byte at every
\* position i it has passed (also i >= 255) is ciphertext[i] XOR
\* F[F[(i + 1) mod 256]]; bytes not yet passed are untouched; running the
\* loop again over its own output gives back the ciphertext.
C9_StreamCipher ==
    sb_phase \in {"decode", "done"} =>
        /\ s_box_clone = final_sbox
        /\ \A i \in 0..(Len(cipher) - 1) :
              audio_data[i + 1] =
                  IF i < sb_i
                  THEN BitXor(cipher[i + 1], final_sbox[final_sbox[(i + 1) % 256]])
                  ELSE cipher[i + 1]
        /\ sb_phase = "done" => StreamCipher(final_sbox, audio_data) = cipher

\* C9 witness: the loop is over on a payload longer than 256 bytes, whose
\* last positions wrapped the index, and it changed the payload.
C9_Witness ==
    /\ sb_phase = "done"
    /\ Len(cipher) > 256
    /\ audio_data # cipher
    /\ audio_data[257] = BitXor(cipher[257], final_sbox[final_sbox[1]])

-----------------------------------------------------------------------------
(* Claims about one convert_ncm_file request (Spec). *)

\* The operations a request has done, in order.
Ops(p) == [k \in 1..Len(effects[p]) |-> effects[p][k].op]

Did(p, op) == \E k \in 1..Len(effects[p]) : effects[p][k].op = op

\* The temporary files the request's fs::write created.
CreatedBy(p) ==
    {effects[p][k].path : k \in {n \in 1..Len(effects[p]) : effects[p][n].op = "create_temp"}}

\* process_ncm has returned a result.
Returned(p) == pc[p] \in {"returned", "done"}

\* The request is over: the handler returned, or its task panicked.
Finished(p) == pc[p] \in {"done", "panicked"}

\* C1: whenever process_ncm has returned, by success or by any error, no
\* temporary file created by that call is on disk.
C1_NoTempLeft ==
    \A p \in procs :
        Returned(p) => \A t \in CreatedBy(p) : ~fs[t].exists

\* The layout of section 4.1 walked over a buffer: whether every gap and
\* every section lies within the buffer.
LayoutFits(buf) ==
    /\ Len(buf) >= 14
    /\ LET afterKey == 14 + U32LE(BytesAt(buf, 10, 4))
       IN  /\ Len(buf) >= afterKey + 4
           /\ LET afterMeta == afterKey + 4 + U32LE(BytesAt(buf, afterKey, 4)) + 9
              IN  /\ Len(buf) >= afterMeta + 4
                  /\ Len(buf) >= afterMeta + 4 + U32LE(BytesAt(buf, afterMeta, 4))

\* The key section, where it is all there, derives a raw key of length >= 1.
KeyDerives(buf) ==
    (Len(buf) >= 14 /\ Len(buf) >= 14 + U32LE(BytesAt(buf, 10, 4))) =>
        LET decrypted == decrypt_aes(Unmask(BytesAt(buf, 14, U32LE(BytesAt(buf, 10, 4)))),
                                     CORE_KEY)
        IN  decrypted.ok /\ Len(decrypted.bytes) > 17

\* C4: a buffer with the valid magic in which a gap or a length field
\* carries the cursor past the end makes parsing return the truncation
\* error: the call does not abort and takes no audio section.  (Stated for
\* buffers whose key section, where complete, derives a key, so that what
\* is shown is the parser's own behaviour.)
C4_TruncatedFailsFast ==
    \A p \in procs :
        LET buf == local[p].buffer
        IN  ( /\ pc[p] \notin {"idle", "open", "header"}
              /\ Len(buf) >= 8
              /\ SubSeq(buf, 1, 8) = MAGIC
              /\ ~LayoutFits(buf)
              /\ KeyDerives(buf) )
            => /\ pc[p] # "panicked"
               /\ ~Did(p, "decrypt_audio")
               /\ Returned(p) => result[p] = "UnexpectedEof"

\* C5: a decrypted key section of 17 bytes or fewer makes the pipeline
\* return the key-too-short error: the call does not abort and build_sbox
\* is not run on an empty key.
C5_KeyTooShort ==
    \A p \in procs :
        (Did(p, "decrypt_key") /\ Len(local[p].decrypted_key) <= 17)
            => /\ pc[p] # "panicked"
               /\ ~Did(p, "build_sbox")
               /\ Returned(p) => result[p] = "KeyTooShort"

\* C6: a decrypted buffer is classified as Flac exactly when it has at
\* least 4 bytes and the first four are "fLaC".
C6_SnifferAtLeast4 ==
    \A p \in procs :
        Did(p, "decrypt_audio") =>
            local[p].is_flac =
                ( /\ Len(local[p].audio_data) >= 4
                  /\ SubSeq(local[p].audio_data, 1, 4) = FLAC_MAGIC )

\* The events of request p, in order.
EventsOf(p) == SelectSeq(events, LAMBDA e : e.id = p)

\* C7: a request emits "processing" once, before the pipeline runs, and when
\* it is over exactly one terminal event: "completed" for a success, "error"
\* with the message for an error, never both and never neither.
C7_OneTerminalEvent ==
    \A p \in procs :
        LET ev == EventsOf(p)
        IN  /\ Len(ev) <= 2
            /\ pc[p] # "idle" => (Len(ev) >= 1 /\ ev[1].status = "processing")
            /\ Len(ev) = 2 => ev[2].status \in {"completed", "error"}
            /\ Finished(p) =>
                  /\ Len(ev) = 2
                  /\ ev[2].status = (IF result[p] = "Ok" THEN "completed" ELSE "error")
                  /\ ev[2].status = "error" => ev[2].message = result[p]

\* C8: a buffer whose first 8 bytes differ from the magic fails with the
\* invalid-format error before any section is read: only the magic was
\* read, no length field, no key decryption, and no file was written.
C8_InvalidMagicFirst ==
    \A p \in procs :
        LET buf == local[p].buffer
        IN  ( /\ pc[p] \notin {"idle", "open"}
              /\ Len(buf) >= 8
              /\ SubSeq(buf, 1, 8) # MAGIC )
            => IF pc[p] = "header"
               THEN effects[p] = <<>>
               ELSE /\ Returned(p)
                    /\ result[p] = "Invalid NCM file format"
                    /\ Ops(p) = <<"read_magic">>
                    /\ \A path \in Paths : fs[path].exists => path = file_path[p]

\* C8 witness: the request is over on a container with sections whose
\* magic is wrong in its last byte only.
C8_Witness ==
    \E p \in procs :
        /\ pc[p] = "done"
        /\ Len(local[p].buffer) > 40
        /\ SubSeq(local[p].buffer, 1, 7) = SubSeq(MAGIC, 1, 7)
        /\ local[p].buffer[8] # MAGIC[8]
        /\ result[p] = "Invalid NCM file format"

-----------------------------------------------------------------------------
(* Claims about two concurrent requests (SpecConc). *)

\* The requests that did an operation on the file at path.
Users(path) ==
    {p \in procs : \E k \in 1..Len(effects[p]) : effects[p][k].path = path}

\* C3: concurrent requests are independent, also for the same input path:
\* each request's result is the one of a run alone, so two requests for the
\* same input that met no injected I/O fault return the same result (no
\* request reads or writes a temporary or destination file that another
\* request writes: see Users).
C3_IndependentRequests ==
    \A p \in procs, q \in procs :
        ( /\ Returned(p)
          /\ Returned(q)
          /\ file_path[p] = file_path[q]
          /\ ~faulted[p]
          /\ ~faulted[q] )
        => result[p] = result[q]

-----------------------------------------------------------------------------
(* Claims about the folder watcher (SpecWatch). *)

\* C2: after any interleaving of start_folder_watcher and
\* stop_folder_watcher calls, failed starts included, at most one directory
\* watch is active (and the handle holds it or nothing); a start creates
\* its watcher only when the prior one is stopped; and the handle is read
\* or replaced only by the caller that holds the lock.
C2_AtMostOneWatch ==
    /\ [](Cardinality(w_watching) <= 1)
    /\ [](w_handle # 0 => w_watching = {w_handle})
    /\ [](\A c \in Callers : w_pc[c] \in LockedPcs <=> w_lock = c)
    /\ [][\A c \in Callers :
            (w_new'[c] # w_new[c] /\ w_new'[c] # 0) => (w_live = {} /\ w_handle = 0)]_vars
    /\ [][w_handle' # w_handle =>
            (w_lock # 0 /\ w_lock' = w_lock /\ w_pc[w_lock] \in {"s_take", "s_install", "p_set"})]_vars

\* C2 witness: a second watcher is installed and watching after the first
\* was stopped, and the first one's thread has ended.
C2_Witness ==
    /\ w_handle = 2
    /\ w_watching = {2}
    /\ w_live = {2}
    /\ w_threads = {2}
    /\ w_lock = 0

=============================================================================
